---- MODULE Spec2Model ----
(***************************************************************************)
(* Model of the Profroma frontend: the React page (frontend/app/page.tsx)  *)
(* with its Run / Download / edit handlers, and the two proxy route        *)
(* handlers (api/consolidate/route.ts and api/export-xlsx/route.ts).       *)
(*                                                                         *)
(* JavaScript values are tagged records so that null, strings and numbers  *)
(* can be told apart:                                                      *)
(*   Null            null                                                  *)
(*   Str(s)          the string whose characters are the sequence s        *)
(*   Num(m, e)       the number m * 10^(-e), m not divisible by 10 if e>0  *)
(*   NaN             the number NaN                                        *)
(* Response bodies are texts: Raw(s) is the text s, JsonText(v) is the     *)
(* JSON encoding of the value v.                                           *)
(***************************************************************************)
EXTENDS Integers, Sequences, FiniteSets, TLC

\* files, coaText, result, loading, error: the page's useState cells
\* calls:    the invocations of onRun and onDownload that are at an await
\* saves:    the number of file saves the page has triggered
\* nEdits:   the number of updateRow calls on the current result
\* lastEdit: the arguments of the last updateRow call on the current result
\* proxy:    the route handler serving the current proxy request
VARIABLES files, coaText, result, loading, error, calls, saves, nEdits, lastEdit, proxy

vars == <<files, coaText, result, loading, error, calls, saves, nEdits, lastEdit, proxy>>

\* ------------------------------------------------------------------ bounds
\* edits per run of the edit-only specification
MaxEdits == 2
\* edits per result in the page specification
MaxUIEdits == 1
\* downloads started and not failed (in flight or saved)
MaxSaves == 1

\* ------------------------------------------------------------------ values
Null == [t |-> "null"]

Str(s) == [t |-> "string", s |-> s]

Num(m, e) == [t |-> "number", m |-> m, e |-> e]

NaN == [t |-> "number", nan |-> TRUE]

Raw(s) == [t |-> "raw", s |-> s]

JsonText(v) == [t |-> "json", v |-> v]

\* ------------------------------------------------------------------ Row
\* type Row: the field names, in declaration order
Keys == <<"account_number", "account_name", "y2022", "y2023", "y2024", "ttm",
          "mapped_coa_code", "mapped_coa_name", "mapping_confidence",
          "confidence", "notes">>

KeySet == {Keys[i] : i \in 1..Len(Keys)}

numFields == {"y2022", "y2023", "y2024", "ttm", "mapping_confidence", "confidence"}

\* ------------------------------------------------------------------ Number(value)
\* ECMAScript StringToNumber on strings without exponent, hex or Infinity
\* forms: trim white space; empty -> 0; [sign] digits [. digits] or
\* [sign] . digits -> that decimal; anything else -> NaN.
Digits == <<"0", "1", "2", "3", "4", "5", "6", "7", "8", "9">>

IsDigit(c) == \E d \in 1..10 : Digits[d] = c

DigitVal(c) == (CHOOSE d \in 1..10 : Digits[d] = c) - 1

IsSpace(c) == c \in {" ", "\t", "\n"}

RECURSIVE TrimStart(_)
TrimStart(s) == IF s # <<>> /\ IsSpace(Head(s)) THEN TrimStart(Tail(s)) ELSE s

RECURSIVE TrimEnd(_)
TrimEnd(s) ==
  IF s # <<>> /\ IsSpace(s[Len(s)]) THEN TrimEnd(SubSeq(s, 1, Len(s) - 1)) ELSE s

Trim(s) == TrimEnd(TrimStart(s))

RECURSIVE DigitsToInt(_)
DigitsToInt(s) ==
  IF s = <<>> THEN 0
  ELSE 10 * DigitsToInt(SubSeq(s, 1, Len(s) - 1)) + DigitVal(s[Len(s)])

AllDigits(s) == \A i \in 1..Len(s) : IsDigit(s[i])

RECURSIVE Normalize(_, _)
Normalize(m, e) ==
  IF e > 0 /\ m % 10 = 0 THEN Normalize(m \div 10, e - 1) ELSE Num(m, e)

\* an unsigned decimal literal: digits [. digits] or . digits
UnsignedDecimal(s) ==
  LET dots == {i \in 1..Len(s) : s[i] = "."}
      dot  == IF dots = {} THEN Len(s) + 1 ELSE CHOOSE i \in dots : \A j \in dots : i <= j
      ip   == SubSeq(s, 1, dot - 1)
      fp   == SubSeq(s, dot + 1, Len(s))
  IN IF AllDigits(ip) /\ AllDigits(fp) /\ Len(ip) + Len(fp) >= 1
     THEN Normalize(DigitsToInt(ip \o fp), Len(fp))
     ELSE NaN

Negate(n) == IF n = NaN THEN NaN ELSE Num(0 - n.m, n.e)

NumberOf(value) ==
  LET s == Trim(value)
  IN IF s = <<>> THEN Num(0, 0)
     ELSE IF Head(s) = "-" THEN Negate(UnsignedDecimal(Tail(s)))
     ELSE IF Head(s) = "+" THEN UnsignedDecimal(Tail(s))
     ELSE UnsignedDecimal(s)

\* ------------------------------------------------------------------ sample data
\* what the user can type into a cell
InputStrings ==
  { <<>>,
    <<"1", "2", "3", "4", ".", "5">>,
    <<" ", "-", ".", "5", "0">>,
    <<"a", "b", "c">>,
    <<" ">> }

Row1 ==
  [k \in KeySet |->
     CASE k = "account_number" -> Str(<<"1", "0">>)
       [] k = "account_name" -> Str(<<"C", "a", "s", "h">>)
       [] k = "y2022" -> Num(100, 0)
       [] k = "y2023" -> Num(15, 1)
       [] k = "y2024" -> Null
       [] k = "ttm" -> Null
       [] k = "mapped_coa_code" -> Str(<<"1", "0", "0", "0">>)
       [] k = "mapped_coa_name" -> Str(<<"C", "a", "s", "h">>)
       [] k = "mapping_confidence" -> Num(9, 1)
       [] k = "confidence" -> Num(8, 1)
       [] k = "notes" -> Null]

Row2 ==
  [k \in KeySet |->
     CASE k = "account_number" -> Null
       [] k = "account_name" -> Str(<<"R", "e", "n", "t">>)
       [] k = "y2022" -> Null
       [] k = "y2023" -> Num(-20, 0)
       [] k = "y2024" -> Num(30, 0)
       [] k = "ttm" -> Num(25, 0)
       [] k = "mapped_coa_code" -> Null
       [] k = "mapped_coa_name" -> Null
       [] k = "mapping_confidence" -> Null
       [] k = "confidence" -> Num(5, 1)
       [] k = "notes" -> Str(<<"o", "c", "r">>)]

\* two ConsolidatedResult values a backend can return
ResultA == [meta |-> [units |-> "USD", ttm_present |-> FALSE, warnings |-> <<>>],
            rows |-> <<Row1>>]

ResultB == [meta |-> [units |-> "EUR", ttm_present |-> TRUE, warnings |-> <<"scan">>],
            rows |-> <<Row1, Row2>>]

Results == {ResultA, ResultB}

\* ------------------------------------------------------------------ updateRow
\* faulty variant: the numFields test is missing
CoerceAllString(key, value) == IF value = <<>> THEN Null ELSE Str(value)

\* faulty variant: the empty string is not turned into null
CoerceNoNull(key, value) ==
  IF key \in numFields THEN NumberOf(value) ELSE Str(value)

\* the value updateRow stores for (key, value)
Coerce(key, value) ==
  IF key \in numFields
  THEN (IF value = <<>> THEN Null ELSE NumberOf(value))
  ELSE (IF value = <<>> THEN Null ELSE Str(value))

\* faulty variant: the row is rebuilt instead of copied
UpdaterWholeRow(prev, index, key, value) ==
  IF prev = Null THEN prev
  ELSE [prev EXCEPT !.rows[index] = [k \in KeySet |-> Coerce(key, value)]]

\* the updater passed to setResult
Updater(prev, index, key, value) ==
  IF prev = Null THEN prev
  ELSE [prev EXCEPT !.rows[index] = [@ EXCEPT ![key] = Coerce(key, value)]]

updateRow(index, key, value) ==
  /\ result' = Updater(result, index, key, value)
  /\ nEdits' = nEdits + 1
  /\ lastEdit' = [index |-> index, key |-> key, value |-> value]
  /\ UNCHANGED <<files, coaText, loading, error, calls, saves, proxy>>

\* the cells the table renders: one input per row of result.rows and per field
Cells == IF result = Null THEN {} ELSE (1..Len(result.rows)) \X KeySet

\* ------------------------------------------------------------------ edit-only specification
ProxyIdle == [pc |-> "idle"]

\* no cell of the current result has been edited
NoEdit == [index |-> 0]

\* two states of the rest of the page in which a cell can be edited: nothing
\* going on (no result yet, or the one-row result), and a second run in flight
\* after an export of the two-row result has failed
IdlePage ==
  [files |-> <<>>, coaText |-> "", loading |-> FALSE, error |-> Null, calls |-> <<>>]

BusyPage ==
  [files |-> <<"a.pdf">>, coaText |-> "1000,Cash", loading |-> TRUE,
   error |-> Raw("Export failed"),
   calls |-> <<[kind |-> "onRun", pc |-> "fetch",
                req |-> [url |-> "/api/consolidate", pdfs |-> <<"a.pdf">>,
                         coa_csv |-> "1000,Cash"]]>>]

InitEdit ==
  /\ \E page \in {IdlePage, BusyPage} :
       /\ files = page.files
       /\ coaText = page.coaText
       /\ loading = page.loading
       /\ error = page.error
       /\ calls = page.calls
       /\ result \in (IF page = BusyPage THEN {ResultB} ELSE {Null, ResultA})
  /\ saves = 0
  /\ nEdits = 0
  /\ lastEdit = NoEdit
  /\ proxy = ProxyIdle

\* updateRow from a rendered cell, or called while there is no result
NextEdit ==
  \/ \E c \in Cells, v \in InputStrings :
       nEdits < MaxEdits /\ updateRow(c[1], c[2], v)
  \/ \E k \in KeySet, v \in InputStrings :
       result = Null /\ nEdits < MaxEdits /\ updateRow(1, k, v)

SpecEdit == InitEdit /\ [][NextEdit]_vars

\* ------------------------------------------------------------------ page: inputs
FileChoices == {<<>>, <<"a.pdf">>}

CoaTexts == {"", "1000,Cash"}

\* what the user types into a cell in the page specification
UIInputs == {<<"a", "b", "c">>}

\* the column edited in the page specification
UIKeys == {"y2023"}

\* responses of POST /api/consolidate as the browser sees them
RunResponses ==
  { [status |-> 200, body |-> JsonText(ResultA)],
    [status |-> 200, body |-> JsonText(ResultB)],
    [status |-> 200, body |-> Raw("<html>")],
    [status |-> 500, body |-> Raw("boom")],
    [status |-> 502, body |-> Raw("")] }

\* responses of POST /api/export-xlsx as the browser sees them
ExportResponses ==
  { [status |-> 200, body |-> Raw("xlsx")],
    [status |-> 500, body |-> Raw("boom")],
    [status |-> 422, body |-> Raw("")] }

\* Response.ok
Ok(res) == res.status \in 200..299

\* a thrown value; every value the try block of onRun can throw is an Error
ErrorOf(message) == [isError |-> TRUE, message |-> message]

\* fetch() rejects with a TypeError
FetchTypeError == ErrorOf(Raw("Failed to fetch"))

\* res.json() rejects with a SyntaxError when the body is not JSON
JsonSyntaxError == ErrorOf(Raw("Unexpected token"))

\* JSON.stringify: NaN is written as null
JsonValue(v) == IF v = NaN THEN Null ELSE v

JSONstringify(r) ==
  IF r = Null THEN JsonText(Null)
  ELSE JsonText([r EXCEPT !.rows =
                   [i \in 1..Len(r.rows) |-> [k \in KeySet |-> JsonValue(r.rows[i][k])]]])

\* text || fallback
OrElse(text, fallback) == IF text = Raw("") THEN Raw(fallback) ELSE text

Remove(s, i) == SubSeq(s, 1, i - 1) \o SubSeq(s, i + 1, Len(s))

Downloads == {i \in 1..Len(calls) : calls[i].kind = "onDownload"}

InState(kind, pc) == {i \in 1..Len(calls) : calls[i].kind = kind /\ calls[i].pc = pc}

\* ------------------------------------------------------------------ page: file and COA inputs
setFiles(fs) ==
  /\ files' = fs
  /\ UNCHANGED <<coaText, result, loading, error, calls, saves, nEdits, lastEdit, proxy>>

setCoaText(txt) ==
  /\ coaText' = txt
  /\ UNCHANGED <<files, result, loading, error, calls, saves, nEdits, lastEdit, proxy>>

\* ------------------------------------------------------------------ page: onRun
\* faulty variant: the button is not disabled while loading
RunEnabledNoLoading == Len(files) > 0

\* faulty variant: the button is not disabled without files
RunEnabledNoFiles == ~loading

\* the Run button is enabled

RunEnabled == ~loading /\ Len(files) > 0

onRun ==
  /\ RunEnabled
  /\ error' = Null
  /\ loading' = TRUE
  /\ calls' = Append(calls, [kind |-> "onRun", pc |-> "fetch",
                             req |-> [url |-> "/api/consolidate", pdfs |-> files,
                                      coa_csv |-> coaText]])
  /\ UNCHANGED <<files, coaText, result, saves, nEdits, lastEdit, proxy>>

\* fetch resolves: the handler goes on to res.text() or res.json()
RunFetchResolve(i, res) ==
  /\ i \in InState("onRun", "fetch")
  /\ calls' = [calls EXCEPT ![i] = [kind |-> "onRun",
                                    pc |-> IF Ok(res) THEN "json" ELSE "text",
                                    res |-> res]]
  /\ UNCHANGED <<files, coaText, result, loading, error, saves, nEdits, lastEdit, proxy>>

\* faulty variant: the fixed message for every thrown value
CatchMessageFixed(e) == Raw("Unexpected error")

\* catch (e): the message shown

CatchMessage(e) == IF e.isError THEN e.message ELSE Raw("Unexpected error")

\* catch and finally
RunFail(i, e) ==
  /\ error' = CatchMessage(e)
  /\ loading' = FALSE
  /\ calls' = Remove(calls, i)
  /\ UNCHANGED <<files, coaText, result, saves, nEdits, lastEdit, proxy>>

\* fetch rejects (network failure)
RunFetchReject(i) ==
  /\ i \in InState("onRun", "fetch")
  /\ RunFail(i, FetchTypeError)

\* !res.ok: throw new Error(text || 'Failed to consolidate')
RunTextResolve(i) ==
  /\ i \in InState("onRun", "text")
  /\ RunFail(i, ErrorOf(OrElse(calls[i].res.body, "Failed to consolidate")))

\* res.ok and the body is not JSON: res.json() rejects
RunJsonReject(i) ==
  /\ i \in InState("onRun", "json")
  /\ calls[i].res.body.t # "json"
  /\ RunFail(i, JsonSyntaxError)

\* res.ok and the body is JSON: setResult(data), then finally
RunJsonResolve(i) ==
  /\ i \in InState("onRun", "json")
  /\ calls[i].res.body.t = "json"
  /\ result' = calls[i].res.body.v
  /\ loading' = FALSE
  /\ nEdits' = 0
  /\ lastEdit' = NoEdit
  /\ calls' = Remove(calls, i)
  /\ UNCHANGED <<files, coaText, error, saves, proxy>>

\* ------------------------------------------------------------------ page: onDownload
\* faulty variant: no test of result
DownloadEnabledAlways == TRUE

\* the Download button is rendered, and onDownload does not return early

DownloadEnabled == result # Null

onDownload ==
  /\ DownloadEnabled
  /\ saves + Cardinality(Downloads) < MaxSaves
  /\ calls' = Append(calls, [kind |-> "onDownload", pc |-> "fetch",
                             req |-> [url |-> "/api/export-xlsx",
                                      body |-> JSONstringify(result)]])
  /\ UNCHANGED <<files, coaText, result, loading, error, saves, nEdits, lastEdit, proxy>>

\* fetch rejects: onDownload has no try/catch, the rejection is unhandled
DownloadFetchReject(i) ==
  /\ i \in InState("onDownload", "fetch")
  /\ calls' = Remove(calls, i)
  /\ UNCHANGED <<files, coaText, result, loading, error, saves, nEdits, lastEdit, proxy>>

\* !res.ok: setError('Export failed'); return
DownloadFetchNotOk(i, res) ==
  /\ i \in InState("onDownload", "fetch")
  /\ ~Ok(res)
  /\ error' = Raw("Export failed")
  /\ calls' = Remove(calls, i)
  /\ UNCHANGED <<files, coaText, result, loading, saves, nEdits, lastEdit, proxy>>

\* res.ok: the handler goes on to res.blob()
DownloadFetchOk(i, res) ==
  /\ i \in InState("onDownload", "fetch")
  /\ Ok(res)
  /\ calls' = [calls EXCEPT ![i] = [kind |-> "onDownload", pc |-> "blob", res |-> res]]
  /\ UNCHANGED <<files, coaText, result, loading, error, saves, nEdits, lastEdit, proxy>>

\* the blob arrives: a.download = 'consolidated.xlsx'; a.click()
DownloadBlobResolve(i) ==
  /\ i \in InState("onDownload", "blob")
  /\ saves' = saves + 1
  /\ calls' = Remove(calls, i)
  /\ UNCHANGED <<files, coaText, result, loading, error, nEdits, lastEdit, proxy>>

\* ------------------------------------------------------------------ page specification
Init ==
  /\ files = <<>>
  /\ coaText = ""
  /\ result = Null
  /\ loading = FALSE
  /\ error = Null
  /\ calls = <<>>
  /\ saves = 0
  /\ nEdits = 0
  /\ lastEdit = NoEdit
  /\ proxy = ProxyIdle

Next ==
  \/ \E fs \in FileChoices : setFiles(fs)
  \/ \E txt \in CoaTexts : setCoaText(txt)
  \/ onRun
  \/ \E i \in 1..Len(calls), res \in RunResponses : RunFetchResolve(i, res)
  \/ \E i \in 1..Len(calls) : RunFetchReject(i)
  \/ \E i \in 1..Len(calls) : RunTextResolve(i)
  \/ \E i \in 1..Len(calls) : RunJsonReject(i)
  \/ \E i \in 1..Len(calls) : RunJsonResolve(i)
  \/ onDownload
  \/ \E i \in 1..Len(calls) : DownloadFetchReject(i)
  \/ \E i \in 1..Len(calls), res \in ExportResponses : DownloadFetchNotOk(i, res)
  \/ \E i \in 1..Len(calls), res \in ExportResponses : DownloadFetchOk(i, res)
  \/ \E i \in 1..Len(calls) : DownloadBlobResolve(i)
  \/ \E c \in Cells, v \in UIInputs :
       c[2] \in UIKeys /\ nEdits < MaxUIEdits /\ updateRow(c[1], c[2], v)

Spec == Init /\ [][Next]_vars

\* once the response has arrived, the handler's continuation (res.text() or
\* res.json(), then catch and finally) runs to its end
RunContinues ==
  \E i \in 1..Len(calls) : RunTextResolve(i) \/ RunJsonReject(i) \/ RunJsonResolve(i)

FairSpec == Spec /\ WF_vars(RunContinues)

\* ------------------------------------------------------------------ proxy routes
\* A backend response: status, body, and the two headers the proxies read
\* (Null when the header is absent).  A 204 carries no body.
Statuses == {200, 204, 404, 500}

BackendBodies == {Raw(""), Raw("data")}

ContentTypes == {Null, Raw(""), Raw("text/plain")}

ContentDispositions == {Null, Raw(""), Raw("attachment; filename=\"report.xlsx\"")}

BackendResponses ==
  { r \in [status : Statuses, body : BackendBodies,
           contentType : ContentTypes, contentDisposition : ContentDispositions] :
      r.status = 204 => r.body = Raw("") }

\* request bodies the browser sends to the two routes
FormBodies == {Raw("pdfs=a.pdf&coa_csv="), Raw("pdfs=a.pdf&coa_csv=1000,Cash")}

JsonBodies == {JSONstringify(ResultA), JSONstringify(ResultB)}

\* response.headers.get(name) || fallback
HeaderOr(value, fallback) ==
  IF value = Null \/ value = Raw("") THEN Raw(fallback) ELSE value

\* statuses for which the Response constructor rejects a non-null body
NullBodyStatus == {101, 204, 205, 304}

\* what the framework answers when the route handler throws
UncaughtError ==
  [status |-> 500, body |-> Raw("Internal Server Error"),
   contentType |-> Null, contentDisposition |-> Null]

\* new NextResponse(raw, { status, headers }): raw is an ArrayBuffer, never
\* null, so the constructor throws a TypeError on a null-body status and a
\* RangeError on a status outside 200..599; the handler does not catch it.
NewNextResponse(raw, status, contentType, contentDisposition) ==
  IF status \in NullBodyStatus \/ status \notin 200..599
  THEN UncaughtError
  ELSE [status |-> status, body |-> raw,
        contentType |-> contentType, contentDisposition |-> contentDisposition]

\* api/consolidate/route.ts POST: req.formData(), then fetch
ConsolidatePOST(body) ==
  /\ proxy.pc = "idle"
  /\ proxy' = [pc |-> "fetch", route |-> "consolidate",
               sent |-> [url |-> "/api/consolidate", method |-> "POST", body |-> body]]
  /\ UNCHANGED <<files, coaText, result, loading, error, calls, saves, nEdits, lastEdit>>

\* the backend answers: relay status, body and content-type
ConsolidateRelay(response) ==
  /\ proxy.pc = "fetch"
  /\ proxy.route = "consolidate"
  /\ proxy' = [pc |-> "done", route |-> "consolidate", sent |-> proxy.sent,
               backend |-> response,
               response |-> NewNextResponse(response.body, response.status,
                               HeaderOr(response.contentType, "application/json"),
                               Null)]
  /\ UNCHANGED <<files, coaText, result, loading, error, calls, saves, nEdits, lastEdit>>

\* api/export-xlsx/route.ts POST: req.text(), then fetch
ExportPOST(body) ==
  /\ proxy.pc = "idle"
  /\ proxy' = [pc |-> "fetch", route |-> "export-xlsx",
               sent |-> [url |-> "/api/export-xlsx", method |-> "POST", body |-> body]]
  /\ UNCHANGED <<files, coaText, result, loading, error, calls, saves, nEdits, lastEdit>>

\* the backend answers: relay status, body, content-type and content-disposition
ExportRelay(response) ==
  /\ proxy.pc = "fetch"
  /\ proxy.route = "export-xlsx"
  /\ proxy' = [pc |-> "done", route |-> "export-xlsx", sent |-> proxy.sent,
               backend |-> response,
               response |-> NewNextResponse(response.body, response.status,
                               HeaderOr(response.contentType,
                                 "application/vnd.openxmlformats-officedocument.spreadsheetml.sheet"),
                               HeaderOr(response.contentDisposition,
                                 "attachment; filename=\"consolidated.xlsx\""))]
  /\ UNCHANGED <<files, coaText, result, loading, error, calls, saves, nEdits, lastEdit>>

\* the handler has returned; the route serves its next request
ProxyReturn ==
  /\ proxy.pc = "done"
  /\ proxy' = ProxyIdle
  /\ UNCHANGED <<files, coaText, result, loading, error, calls, saves, nEdits, lastEdit>>

NextProxy ==
  \/ \E body \in FormBodies : ConsolidatePOST(body)
  \/ \E response \in BackendResponses : ConsolidateRelay(response)
  \/ \E body \in JsonBodies : ExportPOST(body)
  \/ \E response \in BackendResponses : ExportRelay(response)
  \/ ProxyReturn

SpecProxy == Init /\ [][NextProxy]_vars

\* ================================================================== claims
RunCalls == {i \in 1..Len(calls) : calls[i].kind = "onRun"}

\* requests sent and not yet answered
Outstanding == {i \in 1..Len(calls) : calls[i].pc = "fetch"}

\* this step ends the invocation calls[i]
Ends(i) == i \in 1..Len(calls) /\ calls' = Remove(calls, i)

\* this step starts an invocation of the given kind
Starts(kind) ==
  /\ Len(calls') = Len(calls) + 1
  /\ SubSeq(calls', 1, Len(calls)) = calls
  /\ calls'[Len(calls')].kind = kind

ProxyAnswered == proxy.pc = "done"

\* ------------------------------------------------------------------ C1
\* C1: for both routes and every backend response, the proxy's response has
\* the backend's status code and the backend's body.
C1_StatusAndBodyRelayed ==
  ProxyAnswered =>
    /\ proxy.response.status = proxy.backend.status
    /\ proxy.response.body = proxy.backend.body

\* ------------------------------------------------------------------ C2
\* C2: the export proxy answers with the default content-disposition when
\* the backend's response has none, and with the backend's value when it
\* has one.
C2_ContentDisposition ==
  (ProxyAnswered /\ proxy.route = "export-xlsx") =>
    proxy.response.contentDisposition =
      (IF proxy.backend.contentDisposition = Null
       THEN Raw("attachment; filename=\"consolidated.xlsx\"")
       ELSE proxy.backend.contentDisposition)

\* ------------------------------------------------------------------ C3
\* the numbers the sample inputs denote
NumericValue(value) ==
  CASE value = <<"1", "2", "3", "4", ".", "5">> -> Num(12345, 1)
    [] value = <<" ", "-", ".", "5", "0">> -> Num(-5, 1)
    [] value = <<" ">> -> Num(0, 0)
    [] OTHER -> NaN

\* C3: updateRow on a numeric field stores null for the empty string and the
\* number the input denotes otherwise ("1234.5" gives 1234.5; text that is no
\* numeral gives the number NaN); and every numeric field of every row is a
\* number or null, never a string.
C3_NumericCoercion ==
  result # Null =>
    /\ \A i \in 1..Len(result.rows), k \in numFields :
         result.rows[i][k].t \in {"number", "null"}
    /\ (lastEdit # NoEdit /\ lastEdit.key \in numFields) =>
         result.rows[lastEdit.index][lastEdit.key] =
           (IF lastEdit.value = <<>> THEN Null ELSE NumericValue(lastEdit.value))

C3_Witness ==
  /\ result # Null
  /\ Len(result.rows) = 2
  /\ nEdits = 2
  /\ lastEdit = [index |-> 2, key |-> "y2023", value |-> <<"1", "2", "3", "4", ".", "5">>]
  /\ result.rows[2]["y2023"] = Num(12345, 1)
  /\ result.rows[1]["ttm"] = NaN

\* ------------------------------------------------------------------ C4
\* C4: updateRow on a non-numeric field stores a non-empty input as that very
\* string and the empty string as null.
C4_StringCoercion ==
  (result # Null /\ lastEdit # NoEdit /\ lastEdit.key \notin numFields) =>
    result.rows[lastEdit.index][lastEdit.key] =
      (IF lastEdit.value = <<>> THEN Null ELSE Str(lastEdit.value))

C4_Witness ==
  /\ result # Null
  /\ Len(result.rows) = 2
  /\ nEdits = 2
  /\ lastEdit = [index |-> 1, key |-> "account_name", value |-> <<>>]
  /\ result.rows[1]["account_name"] = Null
  /\ result.rows[2]["notes"] = Str(<<" ", "-", ".", "5", "0">>)

\* ------------------------------------------------------------------ C5
\* C5 as stated: a success response makes the parsed body the result; a
\* non-success response shows the response text as the error and leaves the
\* result alone; a network exception shows "Unexpected error".
C5_TwoOutcomes ==
  [][\A i \in RunCalls : Ends(i) =>
       CASE calls[i].pc = "json" ->
              calls[i].res.body.t = "json" /\ result' = calls[i].res.body.v
         [] calls[i].pc = "text" ->
              error' = calls[i].res.body /\ result' = result
         [] calls[i].pc = "fetch" ->
              error' = Raw("Unexpected error") /\ result' = result]_vars

\* C5 amended: a success response whose body is JSON makes the parsed body
\* the result and sets no error; a non-success response shows the response
\* text, or "Failed to consolidate" when the text is empty; a rejected fetch
\* or a success body that is not JSON shows the exception's own message; in
\* the three failure cases the result is not replaced.
C5_Outcomes ==
  [][\A i \in RunCalls : Ends(i) =>
       CASE calls[i].pc = "json" /\ calls[i].res.body.t = "json" ->
              result' = calls[i].res.body.v /\ error' = error
         [] calls[i].pc = "json" /\ calls[i].res.body.t # "json" ->
              error' = JsonSyntaxError.message /\ result' = result
         [] calls[i].pc = "text" ->
              /\ error' = (IF calls[i].res.body = Raw("")
                           THEN Raw("Failed to consolidate")
                           ELSE calls[i].res.body)
              /\ result' = result
         [] calls[i].pc = "fetch" ->
              error' = FetchTypeError.message /\ result' = result]_vars

C5_Witness ==
  /\ error = Raw("Failed to fetch")
  /\ ~loading
  /\ RunCalls = {}
  /\ result = ResultA

\* ------------------------------------------------------------------ C6
\* C6: every export that fails (the fetch is answered with a non-success
\* status, or is not answered at all) shows "Export failed", saves no file
\* and leaves the result alone.
C6_ExportFailureShown ==
  [][\A i \in InState("onDownload", "fetch") :
       Ends(i) =>
         /\ error' = Raw("Export failed")
         /\ saves' = saves
         /\ result' = result]_vars

\* ------------------------------------------------------------------ C7
\* C7: loading becomes true only by onRun, with a file selected and no run
\* in flight; loading is true exactly while a run is in flight; loading
\* becomes false only when that run ends, with the result populated from the
\* response or a non-null error; and a run whose response has arrived does
\* leave the running state.
C7_RunLifecycle ==
  /\ [][(~loading /\ loading') =>
          (Len(files) > 0 /\ RunCalls = {} /\ Starts("onRun"))]_vars
  /\ [](loading <=> RunCalls # {})
  /\ [][(loading /\ ~loading') =>
          \E i \in RunCalls :
            /\ Ends(i)
            /\ \/ /\ calls[i].pc = "json"
                  /\ calls[i].res.body.t = "json"
                  /\ result' # Null
                  /\ result' = calls[i].res.body.v
               \/ error' # Null]_vars
  /\ ((\E i \in RunCalls : calls[i].pc \in {"text", "json"}) ~> ~loading)

C7_Witness ==
  /\ ~loading
  /\ RunCalls = {}
  /\ result = ResultB
  /\ error = Null
  /\ files = <<"a.pdf">>

\* ------------------------------------------------------------------ C8
\* C8 as stated: at most one request of the page is outstanding at a time.
C8_OneOutstanding == Cardinality(Outstanding) <= 1

\* C8 amended: at most one consolidate request is outstanding at a time;
\* export requests are not limited by it.
C8_OneRunOutstanding == Cardinality(RunCalls) <= 1

C8_Witness ==
  /\ Cardinality(RunCalls \cap Outstanding) = 1
  /\ Cardinality(Outstanding \ RunCalls) = 1

\* ------------------------------------------------------------------ C9
\* the JSON form of what the last edit stored
EditedJson ==
  IF lastEdit.value = <<>> THEN Null
  ELSE IF lastEdit.key \in numFields
       THEN (IF NumericValue(lastEdit.value) = NaN THEN Null
             ELSE NumericValue(lastEdit.value))
       ELSE Str(lastEdit.value)

\* C9: an export request is only issued when there is a result, and its body
\* is the JSON text of the result as it is at the click, edits included (in
\* JSON a NaN is written as null).
C9_ExportCarriesResult ==
  [][Starts("onDownload") =>
       LET body == calls'[Len(calls')].req.body
       IN /\ result # Null
          /\ body = JSONstringify(result)
          /\ body.v # Null
          /\ body.v.meta = result.meta
          /\ Len(body.v.rows) = Len(result.rows)
          /\ lastEdit # NoEdit =>
               body.v.rows[lastEdit.index][lastEdit.key] = EditedJson]_vars

C9_Witness ==
  \E i \in InState("onDownload", "fetch") :
    /\ lastEdit = [index |-> 2, key |-> "y2023", value |-> <<"a", "b", "c">>]
    /\ result.rows[2]["y2023"] = NaN
    /\ calls[i].req.body.v.rows[2]["y2023"] = Null
    /\ calls[i].req.body.v.rows[2]["ttm"] = Row2["ttm"]
    /\ calls[i].req.body.v.rows[1] = Row1

\* ------------------------------------------------------------------ C10
\* C10: updateRow changes only the field `key` of the row at `index`: the
\* other fields and rows, the number of rows, the meta block, the files, the
\* COA text, loading, error and the requests in flight stay as they are; with
\* no result it changes nothing.
C10_EditIsLocal ==
  [][nEdits' = nEdits + 1 =>
       /\ UNCHANGED <<files, coaText, loading, error, calls, saves>>
       /\ IF result = Null THEN result' = Null
          ELSE /\ result' # Null
               /\ result'.meta = result.meta
               /\ Len(result'.rows) = Len(result.rows)
               /\ \A i \in 1..Len(result.rows) :
                    /\ DOMAIN result'.rows[i] = KeySet
                    /\ \A k \in KeySet :
                         (i # lastEdit'.index \/ k # lastEdit'.key) =>
                           result'.rows[i][k] = result.rows[i][k]]_vars

C10_Witness ==
  /\ lastEdit = [index |-> 2, key |-> "ttm", value |-> <<"a", "b", "c">>]
  /\ nEdits = 1
  /\ result = [ResultB EXCEPT !.rows[2]["ttm"] = NaN]
  /\ loading
  /\ calls = BusyPage.calls

====
